---- MODULE Spec2Model ----
(***************************************************************************)
(* Model of src/app.py: the upload pipeline of the speech-analysis web     *)
(* application (index / download_file and their helpers).                  *)
(*                                                                         *)
(* Strings are sequences of tokens (a token is one character, or a run of  *)
(* characters that no operation of the program splits), so concatenation,  *)
(* str.split() and ' '.join() are computed, not assumed.                   *)
(*                                                                         *)
(* Requests run concurrently (the front end's threads); one action is one  *)
(* step of one request between two accesses to state shared with the other *)
(* requests: the file system and pyplot's process-wide figure stack.       *)
(***************************************************************************)
EXTENDS Integers, Sequences, FiniteSets, TLC

VARIABLES
    pc,        \* request -> position in index()
    inp,       \* request -> what the client sent
    uid,       \* request -> unique_name (<<>> before it is generated)
    svc,       \* request -> what the recognition service did
    text,      \* request -> text (line 100)
    phonetic,  \* request -> phonetic (line 106)
    resp,      \* request -> the response returned
    made,      \* request -> the paths this request has created or written
    steps,     \* request -> the pipeline steps it has run, in order
    err,       \* request -> the step whose exception left index()
    files,     \* the file system: resolved path -> content
    gcf,       \* pyplot's figure stack; the current figure is the last
    dl,        \* the response of the download request just served
    dict,      \* the pronunciation dictionary behind phones_for_word
    fin,       \* input of the function under test (function specifications)
    fout       \* its output

vars == <<pc, inp, uid, svc, text, phonetic, resp, made, steps, err, files, gcf, dl,
          dict, fin, fout>>

reqVars == <<pc, inp, uid, svc, text, phonetic, resp, made, steps, err, files, gcf, dl>>

(***************************************************************************)
(* Bounds                                                                  *)
(***************************************************************************)
NumRequests == 2

MaxTextLen == 3

MaxFrames == 3

Requests == 1..NumRequests

(***************************************************************************)
(* Strings                                                                 *)
(***************************************************************************)
Whitespace == {" ", "TAB"}

Last(s) == s[Len(s)]

IsPrefixOf(a, b) == Len(a) <= Len(b) /\ a = SubSeq(b, 1, Len(a))

Front(s) == SubSeq(s, 1, Len(s) - 1)

\* Python's s[:k] for k >= 0
Take(s, k) == SubSeq(s, 1, IF k < Len(s) THEN k ELSE Len(s))

(***************************************************************************)
(* generate_unique_name (lines 19-23)                                      *)
(***************************************************************************)
\* strftime('%Y%m%d_%H%M%S'): 15 characters, one token per second of the clock
Timestamps == {"20240101_120000"}

\* uuid4().hex[:8]: always exactly 8 hexadecimal characters, one token each
HexSuffixes == {"0a0a0a0a", "0b0b0b0b"}

generate_unique_name(timestamp, unique_id) == <<timestamp, "_", unique_id>>

UniqueNames == {generate_unique_name(t, h) : t \in Timestamps, h \in HexSuffixes}

(***************************************************************************)
(* phonetic_transcription (lines 25-28) and the derivation of lines 104-106*)
(***************************************************************************)
NotFound == <<"No", " ", "transcription", " ", "found">>

\* pronouncing.phones_for_word: the list of pronunciations the library gives
\* for the argument it receives; d is the dictionary behind it.
phones_for_word(d, word) == IF word \in DOMAIN d THEN d[word] ELSE <<>>

\* a lookup that lower-cases the word first
Lower(c) == IF c = "A" THEN "a" ELSE c

phonetic_transcription_folded(d, word) ==
    LET phones == phones_for_word(d, [k \in 1..Len(word) |-> Lower(word[k])])
    IN  IF phones # <<>> THEN phones[1] ELSE NotFound

phonetic_transcription(d, word) ==
    LET phones == phones_for_word(d, word)
    IN  IF phones # <<>> THEN phones[1] ELSE NotFound

\* str.split() with no argument: runs of whitespace separate the words, and
\* no empty word is produced.
RECURSIVE SplitFrom(_, _, _, _)
SplitFrom(s, i, word, acc) ==
    IF i > Len(s)
    THEN IF word = <<>> THEN acc ELSE Append(acc, word)
    ELSE IF s[i] \in Whitespace
         THEN SplitFrom(s, i + 1, <<>>, IF word = <<>> THEN acc ELSE Append(acc, word))
         ELSE SplitFrom(s, i + 1, Append(word, s[i]), acc)

split(s) == SplitFrom(s, 1, <<>>, <<>>)

\* sep.join(list)
RECURSIVE join(_, _)
join(sep, list) ==
    IF list = <<>> THEN <<>>
    ELSE IF Len(list) = 1 THEN list[1]
    ELSE list[1] \o sep \o join(sep, Tail(list))

\* line 105: [phonetic_transcription(word) for word in words]
phonetic_list(d, words) == [i \in 1..Len(words) |-> phonetic_transcription(d, words[i])]

\* lines 104-106
derive_phonetic(d, t) == join(<<" ">>, phonetic_list(d, split(t)))

\* Two dictionaries the library may hold: one keyed by the exact spelling, one
\* that also answers for the capitalised spelling.
ExactDict ==
    (<<"a">> :> << <<"AH0">>, <<"EY1">> >>) @@
    (<<"a", "b">> :> << <<"AE1", " ", "B">> >>) @@
    (<<"the">> :> << <<"DH", " ", "AH0">>, <<"DH", " ", "IY0">> >>) @@
    (<<"not">> :> << <<"N", " ", "AA1", " ", "T">> >>)

FoldingDict == (<<"A">> :> << <<"AH0">>, <<"EY1">> >>) @@ ExactDict

Dictionaries == {ExactDict, FoldingDict}

(***************************************************************************)
(* transcribe_audio_to_text (lines 30-40)                                  *)
(***************************************************************************)
CouldNotUnderstand == <<"Could", " ", "not", " ", "understand", " ", "the", " ", "audio.">>

ErrorWithTheAPI == <<"Error", " ", "with", " ", "the", " ", "API:", " ">>

\* what recognizer.record / recognize_google can do with a readable file
ServiceMessages == {<<"recognition", " ", "connection", " ", "failed">>}

NoOutcome == [kind |-> "none", value |-> <<>>]

\* a transcriber that catches only the unintelligible-audio error
transcribe_uncaught_request_error(outcome) ==
    CASE outcome.kind = "text" -> [raised |-> FALSE, value |-> outcome.value]
      [] outcome.kind = "UnknownValueError" ->
            [raised |-> FALSE, value |-> CouldNotUnderstand]
      [] OTHER -> [raised |-> TRUE, value |-> <<>>]

\* outcome.kind: "text" (the service recognised outcome.value),
\* "UnknownValueError", "RequestError" (message outcome.value), or "other"
\* (any other exception: it is not caught).
transcribe_audio_to_text(outcome) ==
    CASE outcome.kind = "text" -> [raised |-> FALSE, value |-> outcome.value]
      [] outcome.kind = "UnknownValueError" ->
            [raised |-> FALSE, value |-> CouldNotUnderstand]
      [] outcome.kind = "RequestError" ->
            [raised |-> FALSE, value |-> ErrorWithTheAPI \o outcome.value]
      [] OTHER -> [raised |-> TRUE, value |-> <<>>]

(***************************************************************************)
(* Paths (lines 12-13, 78, 96, 109) and their resolution by the file system*)
(***************************************************************************)
UPLOAD_FOLDER == "uploads"

OUTPUT_FOLDER == "outputs"

STATIC_FOLDER == "static"

\* os.path.join(folder, name), folder relative and name not starting with "/"
path_join(folder, name) == <<folder, "/">> \o name

\* the upload saved under its original filename alone
file_path_without_id(unique_name, filename) == path_join(UPLOAD_FOLDER, filename)

file_path(unique_name, filename) ==
    path_join(UPLOAD_FOLDER, unique_name \o <<"_">> \o filename)

\* the chart saved under one fixed name
plot_path_fixed(output_name) == path_join(STATIC_FOLDER, <<"prosody.png">>)

plot_path(output_name) == path_join(STATIC_FOLDER, output_name \o <<"_prosody.png">>)

transcription_path(unique_name) == path_join(OUTPUT_FOLDER, unique_name \o <<".txt">>)

\* the directories that exist: the program creates uploads and outputs (lines
\* 14-15) and never any other; static is the application's static folder.
Directories == {<<>>, <<UPLOAD_FOLDER>>, <<OUTPUT_FOLDER>>, <<STATIC_FOLDER>>}

RECURSIVE Components(_, _, _, _)
Components(p, i, comp, acc) ==
    IF i > Len(p) THEN Append(acc, comp)
    ELSE IF p[i] = "/" THEN Components(p, i + 1, <<>>, Append(acc, comp))
    ELSE Components(p, i + 1, Append(comp, p[i]), acc)

\* Walks the directory components of a relative path from the working
\* directory: cwd is the directory reached (a sequence of names) or "ENOENT".
RECURSIVE Walk(_, _, _)
Walk(comps, i, cwd) ==
    IF i > Len(comps) THEN [ok |-> TRUE, dir |-> cwd]
    ELSE LET c == comps[i]
             next == IF c = <<>> \/ c = <<".">> THEN cwd
                     ELSE IF c = <<"..">> THEN (IF cwd = <<>> THEN cwd ELSE Front(cwd))
                     ELSE Append(cwd, c[1])
         IN  IF c # <<>> /\ c # <<".">> /\ c # <<"..">> /\ Len(c) # 1
             THEN [ok |-> FALSE, dir |-> <<>>]
             ELSE IF next \notin Directories THEN [ok |-> FALSE, dir |-> <<>>]
             ELSE Walk(comps, i + 1, next)

\* The file a path names: [ok, file]; not ok when a directory on the way does
\* not exist or the path names a directory (open() raises).
Resolve(p) ==
    LET comps == Components(p, 1, <<>>, <<>>)
        w == Walk(Front(comps), 1, <<>>)
        name == Last(comps)
    IN  IF ~w.ok \/ name = <<>> \/ name = <<".">> \/ name = <<"..">>
           \/ (Len(name) = 1 /\ Append(w.dir, name[1]) \in Directories)
        THEN [ok |-> FALSE, file |-> <<>>]
        ELSE [ok |-> TRUE, file |-> <<w.dir, name>>]

(***************************************************************************)
(* pyplot's process-wide state, as used by prosody_analysis (lines 61-80)  *)
(***************************************************************************)
AxesKeys == {"111", "211", "212"}

NewFigure == [has |-> {}, lines |-> [k \in AxesKeys |-> {}], cur |-> "none"]

\* gcf(): the current figure, created when there is none
WithFigure(g) == IF g = <<>> THEN <<NewFigure>> ELSE g

\* plt.figure(...) (line 61): a new figure, made current
plt_figure(g) == Append(g, NewFigure)

\* plt.subplot(2, 1, k) (lines 63, 70): the axes of the current figure at that
\* position, added when absent, made current
plt_subplot(g, key) ==
    LET h == WithFigure(g)
        f == Last(h)
    IN  Append(Front(h), [f EXCEPT !.has = @ \cup {key}, !.cur = key])

\* plt.plot(...) (lines 64, 71): a line on the current axes of the current
\* figure (gca() adds full-figure axes when the figure has none)
plt_plot(g, line) ==
    LET h == WithFigure(g)
        f == Last(h)
        key == IF f.cur = "none" THEN "111" ELSE f.cur
    IN  Append(Front(h), [f EXCEPT !.has = @ \cup {key}, !.cur = key,
                                   !.lines[key] = @ \cup {line}])

\* what plt.savefig (line 79) writes: the current figure
plt_image(g) ==
    LET f == Last(WithFigure(g))
    IN  [kind |-> "png", has |-> f.has, lines |-> f.lines]

\* plt.close() (line 80): closes the current figure, if any; the figure
\* before it becomes current
plt_close(g) == IF g = <<>> THEN g ELSE Front(g)

(***************************************************************************)
(* prosody_analysis, the series handed to the plot (lines 46-59)           *)
(***************************************************************************)
\* a[mask] for a boolean mask of a's length
RECURSIVE Masked(_, _)
Masked(a, mask) ==
    IF a = <<>> THEN <<>>
    ELSE IF mask[1] THEN <<a[1]>> \o Masked(Tail(a), Tail(mask))
    ELSE Masked(Tail(a), Tail(mask))

Min2(a, b) == IF a < b THEN a ELSE b

min4(a, b, c, d) == Min2(Min2(a, b), Min2(c, d))

\* lines 49-51
voiced_frames(pitch_values) == [i \in 1..Len(pitch_values) |-> pitch_values[i] > 0]

\* a truncation that keeps the end of the series
truncate_from_end(series, min_len) ==
    SubSeq(series, Len(series) - Min2(min_len, Len(series)) + 1, Len(series))

\* lines 57-59
truncate(series, min_len) == Take(series, min_len)

\* lines 46-59: the four series after the unvoiced frames are removed
\* (voiced_*) and as handed to the plot
prosody_series(pitch_values, pitch_times, intensity_values, intensity_times) ==
    LET mask == voiced_frames(pitch_values)
        pv == Masked(pitch_values, mask)
        pt == Masked(pitch_times, mask)
        min_len == min4(Len(pt), Len(pv), Len(intensity_times), Len(intensity_values))
    IN  [done |-> TRUE,
         voiced_values |-> pv, voiced_times |-> pt,
         pitch_times |-> truncate(pt, min_len),
         pitch_values |-> truncate(pv, min_len),
         intensity_times |-> truncate(intensity_times, min_len),
         intensity_values |-> truncate(intensity_values, min_len)]

(***************************************************************************)
(* index and download_file (lines 83-121): state and inputs                *)
(***************************************************************************)
Filenames ==
    {<<>>,
     <<"w.wav">>,
     <<"0b0b0b0b", "_", "w.wav">>,
     <<"..", "/", "outputs", "/", "20240101_120000", "_", "0b0b0b0b", ".txt">>}

\* what the recording holds: words, or nothing the service can interpret
Speech == {<<>>, <<"A", " ", "a", "b">>}

GetRequest == [method |-> "GET", has |-> FALSE, filename |-> <<>>, said |-> <<>>]

Inputs ==
    {GetRequest, [GetRequest EXCEPT !.method = "POST"],
     [GetRequest EXCEPT !.method = "POST", !.has = TRUE]}
    \cup [method : {"POST"}, has : {TRUE}, filename : Filenames \ {<<>>}, said : Speech]

\* the uploads of the call-by-call specification of prosody_analysis: spoken
\* recordings under one filename
PlotInputs == {i \in Inputs : i.filename = <<"w.wav">> /\ i.said # <<>>}

NoResponse ==
    [kind |-> "none", body |-> "", text |-> <<>>, phonetic |-> <<>>,
     plot_url |-> <<>>, download_url |-> <<>>]

PlainText(body) == [NoResponse EXCEPT !.kind = "text", !.body = body]

\* url_for('static', filename=...) and url_for('download_file', filename=...)
static_url(filename) == <<"/static/">> \o filename

download_url(filename) == <<"/download/">> \o filename

\* lines 113-115
render_result(t, ph, unique_name) ==
    [kind |-> "html", body |-> "index.html", text |-> t, phonetic |-> ph,
     plot_url |-> static_url(unique_name \o <<"_prosody.png">>),
     download_url |-> download_url(unique_name \o <<".txt">>)]

\* line 111
transcript_content(t, ph) ==
    <<"Transcribed Text:", "NL">> \o t
        \o <<"NL", "NL", "Phonetic Transcription:", "NL">> \o ph

\* a validation that does not look at the filename
validate_field_only(i) == IF ~i.has THEN "No file part" ELSE ""

\* lines 86-90: the plain-text error, or "" when the upload is accepted
validate(i) ==
    IF ~i.has THEN "No file part"
    ELSE IF i.filename = <<>> THEN "No selected file"
    ELSE ""

\* file contents
NoContent == [kind |-> "none"]

Truncated == [kind |-> "truncated"]

Audio(r, said) == [kind |-> "audio", owner |-> r, said |-> said]

TextFile(data) == [kind |-> "txt", data |-> data]

NoDownload == [asked |-> FALSE, name |-> <<>>, ok |-> FALSE, content |-> NoContent]

Exists(f) == f \in DOMAIN files

WriteFile(f, content) == (f :> content) @@ files

\* the resolved files of request r's three paths
AudioFile(r) == Resolve(file_path(uid[r], inp[r].filename))

ChartFile(r) == Resolve(plot_path(uid[r]))

TranscriptFile(r) == Resolve(transcription_path(uid[r]))

Raise(r, step) ==
    /\ pc' = [pc EXCEPT ![r] = "raised"]
    /\ err' = [err EXCEPT ![r] = step]

Goto(r, next) ==
    /\ pc' = [pc EXCEPT ![r] = next]
    /\ UNCHANGED err

\* a pipeline that ends the request when the transcriber reports a failure
after_transcribe_stops_on_failure(t) ==
    IF t = CouldNotUnderstand \/ IsPrefixOf(ErrorWithTheAPI, t) THEN "done" ELSE "sound"

\* a pipeline that goes from transcription straight to the phonemes
after_transcribe_skips_prosody(t) == "phonemes"

\* the step that follows transcription, whatever the text is (lines 100-101)
after_transcribe(t) == "sound"

InitRequests ==
    /\ pc = [r \in Requests |-> "idle"]
    /\ inp = [r \in Requests |-> GetRequest]
    /\ uid = [r \in Requests |-> <<>>]
    /\ svc = [r \in Requests |-> NoOutcome]
    /\ text = [r \in Requests |-> <<>>]
    /\ phonetic = [r \in Requests |-> <<>>]
    /\ resp = [r \in Requests |-> NoResponse]
    /\ made = [r \in Requests |-> {}]
    /\ steps = [r \in Requests |-> <<>>]
    /\ err = [r \in Requests |-> "none"]
    /\ files = <<>>
    /\ gcf = <<>>
    /\ dl = NoDownload

NoFunction == [done |-> FALSE]

Init ==
    /\ InitRequests
    /\ dict = ExactDict
    /\ fin = <<>>
    /\ fout = NoFunction


(***************************************************************************)
(* index (lines 83-117), one action per step                               *)
(***************************************************************************)
\* lines 85-93 and 117: the request arrives, is validated and gets its name
PostFrom(r, inputs) ==
    /\ pc[r] = "idle"
    /\ \E i \in inputs :
        /\ inp' = [inp EXCEPT ![r] = i]
        /\ IF i.method = "GET"
           THEN /\ resp' = [resp EXCEPT ![r] =
                               [NoResponse EXCEPT !.kind = "html", !.body = "index.html"]]
                /\ pc' = [pc EXCEPT ![r] = "done"]
                /\ UNCHANGED uid
           ELSE IF validate(i) # ""
           THEN /\ resp' = [resp EXCEPT ![r] = PlainText(validate(i))]
                /\ pc' = [pc EXCEPT ![r] = "done"]
                /\ UNCHANGED uid
           ELSE /\ \E t \in Timestamps, h \in HexSuffixes :
                       uid' = [uid EXCEPT ![r] = generate_unique_name(t, h)]
                /\ pc' = [pc EXCEPT ![r] = "save"]
                /\ UNCHANGED resp
    /\ dl' = NoDownload
    /\ UNCHANGED <<dict, fin, fout>>
    /\ UNCHANGED <<svc, text, phonetic, made, steps, err, files, gcf>>

Post(r) == PostFrom(r, Inputs)

\* lines 96-97: file.save(file_path) opens the path for writing and copies the
\* upload into it; it raises before the file is created, or part way
Save(r) ==
    /\ pc[r] = "save"
    /\ LET f == AudioFile(r)
       IN  \/ /\ f.ok
              /\ files' = WriteFile(f.file, Audio(r, inp[r].said))
              /\ made' = [made EXCEPT ![r] = @ \cup {f.file}]
              /\ steps' = [steps EXCEPT ![r] = Append(@, "save")]
              /\ Goto(r, "transcribe")
           \/ /\ f.ok
              /\ files' = WriteFile(f.file, Truncated)
              /\ made' = [made EXCEPT ![r] = @ \cup {f.file}]
              /\ Raise(r, "save")
              /\ UNCHANGED steps
           \/ /\ Raise(r, "save")
              /\ UNCHANGED <<files, made, steps>>
    /\ dl' = NoDownload
    /\ UNCHANGED <<dict, fin, fout>>
    /\ UNCHANGED <<inp, uid, svc, text, phonetic, resp, gcf>>

\* what the recognition service can do with the content of the saved file
Outcomes(content) ==
    IF content.kind # "audio" THEN {[kind |-> "other", value |-> <<>>]}
    ELSE {IF content.said = <<>>
          THEN [kind |-> "UnknownValueError", value |-> <<>>]
          ELSE [kind |-> "text", value |-> content.said]}
         \cup {[kind |-> "RequestError", value |-> m] : m \in ServiceMessages}
         \cup {[kind |-> "other", value |-> <<>>]}

\* line 100
Transcribe(r) ==
    /\ pc[r] = "transcribe"
    /\ \E o \in Outcomes(files[AudioFile(r).file]) :
        LET res == transcribe_audio_to_text(o)
        IN  /\ svc' = [svc EXCEPT ![r] = o]
            /\ IF res.raised
               THEN /\ Raise(r, "transcribe")
                    /\ UNCHANGED <<text, steps>>
               ELSE /\ text' = [text EXCEPT ![r] = res.value]
                    /\ steps' = [steps EXCEPT ![r] = Append(@, "transcribe")]
                    /\ Goto(r, after_transcribe(res.value))
    /\ dl' = NoDownload
    /\ UNCHANGED <<dict, fin, fout>>
    /\ UNCHANGED <<inp, uid, phonetic, resp, made, files, gcf>>

\* lines 44-59: the sound is decoded and the series are computed from it
Sound(r) ==
    /\ pc[r] = "sound"
    /\ \/ /\ files[AudioFile(r).file].kind = "audio"
          /\ Goto(r, "figure")
       \/ Raise(r, "prosody")
    /\ dl' = NoDownload
    /\ UNCHANGED <<dict, fin, fout>>
    /\ UNCHANGED <<inp, uid, svc, text, phonetic, resp, made, steps, files, gcf>>

\* a pyplot call of prosody_analysis that only changes pyplot's state
Pyplot(r, at, next, g) ==
    /\ pc[r] = at
    /\ gcf' = g
    /\ Goto(r, next)
    /\ dl' = NoDownload
    /\ UNCHANGED <<dict, fin, fout>>
    /\ UNCHANGED <<inp, uid, svc, text, phonetic, resp, made, steps, files>>

\* line 61
Figure(r) == Pyplot(r, "figure", "subplot1", plt_figure(gcf))

\* line 63
Subplot1(r) == Pyplot(r, "subplot1", "plot1", plt_subplot(gcf, "211"))

\* lines 64-68
Plot1(r) == Pyplot(r, "plot1", "subplot2", plt_plot(gcf, <<r, "pitch">>))

\* line 70
Subplot2(r) == Pyplot(r, "subplot2", "plot2", plt_subplot(gcf, "212"))

\* lines 71-75
Plot2(r) == Pyplot(r, "plot2", "savefig", plt_plot(gcf, <<r, "intensity">>))

\* lines 77-79: the current figure is rendered and written to plot_path; it
\* raises before the file is created, or part way
Savefig(r) ==
    /\ pc[r] = "savefig"
    /\ LET f == ChartFile(r)
       IN  \/ /\ f.ok
              /\ files' = WriteFile(f.file, plt_image(gcf))
              /\ made' = [made EXCEPT ![r] = @ \cup {f.file}]
              /\ Goto(r, "close")
           \/ /\ f.ok
              /\ files' = WriteFile(f.file, Truncated)
              /\ made' = [made EXCEPT ![r] = @ \cup {f.file}]
              /\ Raise(r, "prosody")
           \/ /\ Raise(r, "prosody")
              /\ UNCHANGED <<files, made>>
    /\ gcf' = WithFigure(gcf)
    /\ dl' = NoDownload
    /\ UNCHANGED <<dict, fin, fout>>
    /\ UNCHANGED <<inp, uid, svc, text, phonetic, resp, steps>>

\* lines 80-81
Close(r) ==
    /\ pc[r] = "close"
    /\ gcf' = plt_close(gcf)
    /\ steps' = [steps EXCEPT ![r] = Append(@, "prosody")]
    /\ Goto(r, "phonemes")
    /\ dl' = NoDownload
    /\ UNCHANGED <<dict, fin, fout>>
    /\ UNCHANGED <<inp, uid, svc, text, phonetic, resp, made, files>>

\* line 101: prosody_analysis as one step
Prosody(r) ==
    /\ pc[r] = "sound"
    /\ \/ /\ Raise(r, "prosody")
          /\ UNCHANGED <<files, made, steps, gcf>>
       \/ /\ files[AudioFile(r).file].kind = "audio"
          /\ LET g == plt_plot(plt_subplot(plt_plot(plt_subplot(plt_figure(gcf), "211"),
                                                   <<r, "pitch">>), "212"),
                              <<r, "intensity">>)
                 f == ChartFile(r)
             IN  \/ /\ f.ok
                    /\ files' = WriteFile(f.file, plt_image(g))
                    /\ made' = [made EXCEPT ![r] = @ \cup {f.file}]
                    /\ gcf' = plt_close(g)
                    /\ steps' = [steps EXCEPT ![r] = Append(@, "prosody")]
                    /\ Goto(r, "phonemes")
                 \/ /\ f.ok
                    /\ files' = WriteFile(f.file, Truncated)
                    /\ made' = [made EXCEPT ![r] = @ \cup {f.file}]
                    /\ gcf' = g
                    /\ Raise(r, "prosody")
                    /\ UNCHANGED steps
                 \/ /\ gcf' = g
                    /\ Raise(r, "prosody")
                    /\ UNCHANGED <<files, made, steps>>
    /\ dl' = NoDownload
    /\ UNCHANGED <<dict, fin, fout>>
    /\ UNCHANGED <<inp, uid, svc, text, phonetic, resp>>

\* lines 104-106
Phonemes(r) ==
    /\ pc[r] = "phonemes"
    /\ phonetic' = [phonetic EXCEPT ![r] = derive_phonetic(dict, text[r])]
    /\ steps' = [steps EXCEPT ![r] = Append(@, "phonemes")]
    /\ Goto(r, "open")
    /\ dl' = NoDownload
    /\ UNCHANGED <<dict, fin, fout>>
    /\ UNCHANGED <<inp, uid, svc, text, resp, made, files, gcf>>

\* lines 109-110: open(transcription_path, 'w') creates the file or empties it
Open(r) ==
    /\ pc[r] = "open"
    /\ LET f == TranscriptFile(r)
       IN  \/ /\ f.ok
              /\ files' = WriteFile(f.file, TextFile(<<>>))
              /\ made' = [made EXCEPT ![r] = @ \cup {f.file}]
              /\ Goto(r, "write")
           \/ /\ Raise(r, "open")
              /\ UNCHANGED <<files, made>>
    /\ dl' = NoDownload
    /\ UNCHANGED <<dict, fin, fout>>
    /\ UNCHANGED <<inp, uid, svc, text, phonetic, resp, steps, gcf>>

\* a transcript file without the phonetic string
written_text_only(t, ph) == TextFile(<<"Transcribed Text:", "NL">> \o t)

\* the content line 111 writes
written_content(t, ph) == TextFile(transcript_content(t, ph))

\* lines 111-115: the content is written and the file closed, then the result
\* page is rendered; a failing write leaves the file as open() left it
Write(r) ==
    /\ pc[r] = "write"
    /\ \/ /\ files' = WriteFile(TranscriptFile(r).file,
                                written_content(text[r], phonetic[r]))
          /\ resp' = [resp EXCEPT ![r] = render_result(text[r], phonetic[r], uid[r])]
          /\ steps' = [steps EXCEPT ![r] = @ \o <<"write", "respond">>]
          /\ Goto(r, "done")
       \/ /\ Raise(r, "write")
          /\ UNCHANGED <<files, resp, steps>>
    /\ dl' = NoDownload
    /\ UNCHANGED <<dict, fin, fout>>
    /\ UNCHANGED <<inp, uid, svc, text, phonetic, made, gcf>>

(***************************************************************************)
(* download_file (lines 119-121)                                           *)
(***************************************************************************)
\* <filename> is one URL segment: it holds no "/"
DownloadNames == {u \o <<".txt">> : u \in UniqueNames} \cup {<<"..">>}

Download(filename) ==
    /\ LET f == Resolve(path_join(OUTPUT_FOLDER, filename))
       IN  dl' = IF f.ok /\ Exists(f.file)
                 THEN [asked |-> TRUE, name |-> filename, ok |-> TRUE,
                       content |-> files[f.file]]
                 ELSE [asked |-> TRUE, name |-> filename, ok |-> FALSE,
                       content |-> NoContent]
    /\ UNCHANGED <<pc, inp, uid, svc, text, phonetic, resp, made, steps, err, files, gcf>>
    /\ UNCHANGED <<dict, fin, fout>>

\* the pipeline, prosody_analysis taken as one step of its request
Next ==
    \/ \E r \in Requests : Post(r)
    \/ \E r \in Requests : Save(r)
    \/ \E r \in Requests : Transcribe(r)
    \/ \E r \in Requests : Prosody(r)
    \/ \E r \in Requests : Phonemes(r)
    \/ \E r \in Requests : Open(r)
    \/ \E r \in Requests : Write(r)
    \/ \E filename \in DownloadNames : Download(filename)

Spec == Init /\ [][Next]_vars

\* the pipeline with prosody_analysis run call by call, so that the pyplot
\* calls of concurrent requests interleave
PostPlot(r) == PostFrom(r, PlotInputs)

NextPlot ==
    \/ \E r \in Requests : PostPlot(r)
    \/ \E r \in Requests : Save(r)
    \/ \E r \in Requests : Transcribe(r)
    \/ \E r \in Requests : Sound(r)
    \/ \E r \in Requests : Figure(r)
    \/ \E r \in Requests : Subplot1(r)
    \/ \E r \in Requests : Plot1(r)
    \/ \E r \in Requests : Subplot2(r)
    \/ \E r \in Requests : Plot2(r)
    \/ \E r \in Requests : Savefig(r)
    \/ \E r \in Requests : Close(r)
    \/ \E r \in Requests : Phonemes(r)
    \/ \E r \in Requests : Open(r)
    \/ \E r \in Requests : Write(r)

SpecPlot == Init /\ [][NextPlot]_vars

(***************************************************************************)
(* Properties of the pipeline                                              *)
(***************************************************************************)
Uploaded(r) == pc[r] = "done" /\ resp[r].kind = "html" /\ inp[r].method = "POST"

Rejected(i) == i.method = "POST" /\ (~i.has \/ i.filename = <<>>)

\* the three artifacts of job id j and original filename fn, as files
AudioOf(j, fn) == <<<<"uploads">>, j \o <<"_">> \o fn>>

ChartOf(j) == << <<"static">>, j \o <<"_prosody.png">> >>

TranscriptOf(j) == << <<"outputs">>, j \o <<".txt">> >>

\* C1: an upload that passes validation and in which no step raises ends with
\* exactly three artifacts created by it, uploads/<id>_<filename>,
\* outputs/<id>.txt and static/<id>_prosody.png, all with its job id; it
\* creates no other file, and both returned URLs carry that id.
C1_ThreeArtifacts ==
    \A r \in Requests :
        Uploaded(r) =>
            /\ uid[r] \in UniqueNames
            /\ made[r] = {AudioOf(uid[r], inp[r].filename), ChartOf(uid[r]),
                          TranscriptOf(uid[r])}
            /\ Cardinality(made[r]) = 3
            /\ made[r] \subseteq DOMAIN files
            /\ resp[r].plot_url = <<"/static/">> \o uid[r] \o <<"_prosody.png">>
            /\ resp[r].download_url = <<"/download/">> \o uid[r] \o <<".txt">>

C1_Witness == \E r \in Requests : Uploaded(r) /\ Cardinality(made[r]) = 3

C2_RejectedInState ==
    \A r \in Requests :
        (pc[r] # "idle" /\ Rejected(inp[r])) =>
            /\ pc[r] = "done"
            /\ resp[r].kind = "text"
            /\ resp[r].body = (IF inp[r].has THEN "No selected file" ELSE "No file part")
            /\ uid[r] = <<>>
            /\ svc[r].kind = "none"
            /\ steps[r] = <<>>
            /\ made[r] = {}

C2_RejectedInStep ==
    \A r \in Requests :
        (pc[r] = "idle" /\ pc'[r] # "idle" /\ Rejected(inp'[r])) =>
            /\ files' = files
            /\ gcf' = gcf

\* C2: a POST without the upload field returns "No file part" and a POST with
\* an empty filename returns a fixed plain-text error; the request ends
\* there: no job id, no transcription, no prosody analysis, and the step that
\* rejects it leaves the file system (and pyplot) as they were.
C2_Rejected == [](C2_RejectedInState) /\ [][C2_RejectedInStep]_vars

C2_Witness ==
    \E r1, r2 \in Requests :
        /\ resp[r1].body = "No file part"
        /\ resp[r2].body = "No selected file"


ServiceFailed(r) == svc[r].kind \in {"UnknownValueError", "RequestError"}

\* the tail of s that is as long as m
Suffix(s, m) == SubSeq(s, Len(s) - Len(m) + 1, Len(s))

\* C3: the transcriber does not raise for the two service failures: an
\* unintelligible recording gives the fixed sentence, a failed service call
\* gives a sentence that ends with the underlying error message, and either
\* is handed to the caller as its text, like a real transcript.
C3_FailuresAreText ==
    \A r \in Requests :
        ServiceFailed(r) =>
            /\ err[r] # "transcribe"
            /\ pc[r] # "transcribe"
            /\ "transcribe" \in {steps[r][k] : k \in DOMAIN steps[r]}
            /\ svc[r].kind = "UnknownValueError" =>
                   text[r] = <<"Could", " ", "not", " ", "understand", " ", "the", " ",
                               "audio.">>
            /\ svc[r].kind = "RequestError" =>
                   /\ Len(text[r]) = 8 + Len(svc[r].value)
                   /\ SubSeq(text[r], 1, 8)
                          = <<"Error", " ", "with", " ", "the", " ", "API:", " ">>
                   /\ Suffix(text[r], svc[r].value) = svc[r].value

C3_Witness ==
    \E r1, r2 \in Requests :
        /\ svc[r1].kind = "UnknownValueError" /\ text[r1] # <<>>
        /\ svc[r2].kind = "RequestError" /\ text[r2] # <<>>

\* the words of the two error sentences
C4_Words(o) ==
    IF o.kind = "UnknownValueError"
    THEN << <<"Could">>, <<"not">>, <<"understand">>, <<"the">>, <<"audio.">> >>
    ELSE << <<"Error">>, <<"with">>, <<"the">>, <<"API:">>,
            <<"recognition">>, <<"connection">>, <<"failed">> >>

C4_Phonetic(o) ==
    join(<<" ">>, [k \in 1..Len(C4_Words(o)) |->
                      IF C4_Words(o)[k] \in DOMAIN dict
                      THEN dict[C4_Words(o)[k]][1]
                      ELSE <<"No", " ", "transcription", " ", "found">>])

C4_Content(r) ==
    [kind |-> "txt",
     data |-> <<"Transcribed Text:", "NL">> \o text[r]
                \o <<"NL", "NL", "Phonetic Transcription:", "NL">> \o C4_Phonetic(svc[r])]

C4_ContinuesInState ==
    \A r \in Requests :
        ServiceFailed(r) =>
            /\ pc[r] \in {"sound", "phonemes", "open", "write", "done", "raised"}
            /\ pc[r] = "raised" => err[r] \in {"prosody", "open", "write"}
            /\ pc[r] \in {"phonemes", "open", "write", "done"} =>
                   /\ IsPrefixOf(<<"save", "transcribe", "prosody">>, steps[r])
                   /\ ChartOf(uid[r]) \in made[r]
            /\ pc[r] \in {"open", "write", "done"} => phonetic[r] = C4_Phonetic(svc[r])
            /\ pc[r] = "done" =>
                   /\ resp[r].kind = "html"
                   /\ resp[r].text = text[r]
                   /\ resp[r].phonetic = C4_Phonetic(svc[r])
                   /\ made[r] = {AudioOf(uid[r], inp[r].filename), ChartOf(uid[r]),
                                 TranscriptOf(uid[r])}

C4_ContinuesInStep ==
    \A r \in Requests :
        (ServiceFailed(r) /\ pc[r] = "write" /\ pc'[r] = "done") =>
            /\ TranscriptOf(uid[r]) \in DOMAIN files'
            /\ files'[TranscriptOf(uid[r])] = C4_Content(r)

\* C4: a transcription that fails with one of the two service errors neither
\* stops the pipeline nor makes it branch: prosody analysis runs next, the
\* phonetic string is the word-by-word lookup of the error sentence, the
\* error sentence and that string are written to the transcript artifact,
\* and the request ends with the normal result page and all three artifacts.
C4_Continues == [](C4_ContinuesInState) /\ [][C4_ContinuesInStep]_vars

C4_Witness ==
    \E r1, r2 \in Requests :
        /\ svc[r1].kind = "UnknownValueError" /\ Uploaded(r1)
        /\ svc[r2].kind = "RequestError" /\ Uploaded(r2)

\* the three paths request r writes, as the program builds them
PathsOf(r) ==
    {file_path(uid[r], inp[r].filename), plot_path(uid[r]), transcription_path(uid[r])}

\* C5: two uploads with different job ids never write a common path,
\* whatever their original filenames and however their steps interleave:
\* the three paths of one all differ from the three of the other, and so do
\* the files they have written.
C5_DisjointPaths ==
    \A r1, r2 \in Requests :
        (r1 # r2 /\ uid[r1] # <<>> /\ uid[r2] # <<>> /\ uid[r1] # uid[r2]) =>
            /\ PathsOf(r1) \cap PathsOf(r2) = {}
            /\ made[r1] \cap made[r2] = {}

C5_Witness ==
    \E r1, r2 \in Requests :
        /\ Uploaded(r1) /\ Uploaded(r2)
        /\ uid[r1] # uid[r2]
        /\ inp[r1].filename = <<"0b0b0b0b", "_", "w.wav">>
        /\ inp[r2].filename = <<"w.wav">>


\* no other request was given request r's job id
SoleId(r) == \A r2 \in Requests \ {r} : uid[r2] # uid[r]

\* the transcript file that holds what request r's response carried
C7_Expected(r) ==
    [kind |-> "txt",
     data |-> <<"Transcribed Text:", "NL">> \o resp[r].text
                \o <<"NL", "NL", "Phonetic Transcription:", "NL">> \o resp[r].phonetic]

C7_Served(r) ==
    /\ TranscriptOf(uid[r]) \in DOMAIN files
    /\ files[TranscriptOf(uid[r])] = C7_Expected(r)
    /\ (dl.asked /\ dl.name = uid[r] \o <<".txt">>) =>
           (dl.ok /\ dl.content = C7_Expected(r))

\* C7 as stated: once the upload of job J has completed, the transcript file
\* <J>.txt holds, and a download of it returns, exactly the transcript and
\* phonetic string of J's response, whatever other requests do.
C7_WrittenOnce == \A r \in Requests : Uploaded(r) => C7_Served(r)

\* C7 as amended: the same, for a job whose id no other upload was given.
C7_WrittenOnceSoleId == \A r \in Requests : (Uploaded(r) /\ SoleId(r)) => C7_Served(r)

C7_Witness ==
    \E r, r2 \in Requests :
        /\ r # r2
        /\ Uploaded(r) /\ Uploaded(r2) /\ SoleId(r)
        /\ dl.asked /\ dl.ok /\ dl.name = uid[r] \o <<".txt">>

FullOrder == <<"save", "transcribe", "prosody", "phonemes", "write", "respond">>

\* a job's transcript exists only if its chart does, and its chart only if
\* an audio copy with its id does
C8_ArtifactOrder ==
    \A j \in UniqueNames :
        /\ TranscriptOf(j) \in DOMAIN files => ChartOf(j) \in DOMAIN files
        /\ ChartOf(j) \in DOMAIN files =>
               \E f \in DOMAIN files :
                   /\ f[1] = <<"uploads">>
                   /\ IsPrefixOf(j \o <<"_">>, f[2])

C8_Steps == \A r \in Requests : IsPrefixOf(steps[r], FullOrder)

\* C8 as stated: the steps run in the fixed order; a request that an exception
\* left after its upload was saved keeps what the earlier steps wrote and has
\* created nothing in the failing and later steps (prosody failure: the audio
\* copy only; transcript-write failure: the audio copy and the chart); and
\* transcript => chart => audio copy holds in every state.
C8_FailingStepCreatesNothing ==
    /\ C8_Steps
    /\ C8_ArtifactOrder
    /\ \A r \in Requests :
          LET audio == AudioOf(uid[r], inp[r].filename)
          IN  /\ err[r] \in {"transcribe", "prosody"} => made[r] = {audio}
              /\ err[r] \in {"open", "write"} => made[r] = {audio, ChartOf(uid[r])}

C8_KeepsEarlierInState ==
    /\ C8_Steps
    /\ C8_ArtifactOrder
    /\ \A r \in Requests :
          LET audio == AudioOf(uid[r], inp[r].filename)
              chart == ChartOf(uid[r])
          IN  /\ err[r] = "transcribe" => made[r] = {audio}
              /\ err[r] = "prosody" => made[r] \in {{audio}, {audio, chart}}
              /\ err[r] = "open" => made[r] = {audio, chart}
              /\ err[r] = "write" =>
                     /\ made[r] = {audio, chart, TranscriptOf(uid[r])}
                     /\ SoleId(r) =>
                            /\ TranscriptOf(uid[r]) \in DOMAIN files
                            /\ files[TranscriptOf(uid[r])] = [kind |-> "txt", data |-> <<>>]
              /\ (err[r] # "none") = (pc[r] = "raised")
              /\ err[r] # "none" => resp[r].kind = "none"

C8_KeepsEarlierInStep ==
    /\ DOMAIN files \subseteq DOMAIN files'
    /\ \A r \in Requests :
          pc[r] = "raised" => (pc'[r] = "raised" /\ made'[r] = made[r] /\ err'[r] = err[r])

\* C8 as amended: as stated, but the failing step's own artifact may have been
\* created and left incomplete: a prosody failure leaves the audio copy and
\* possibly a partial chart, a failing open() the audio copy and the chart, a
\* failing write the audio copy, the chart and an empty transcript file. No
\* step is retried and no file is ever removed.
C8_KeepsEarlier == [](C8_KeepsEarlierInState) /\ [][C8_KeepsEarlierInStep]_vars

C8_Witness ==
    \E r1, r2 \in Requests :
        /\ err[r1] = "prosody" /\ ChartOf(uid[r1]) \in made[r1]
        /\ err[r2] = "write" /\ uid[r2] # uid[r1]


(***************************************************************************)
(* The phoneme derivation (lines 104-106) on every short transcript        *)
(***************************************************************************)
Alphabet == {"a", "b", "A", ".", " ", "TAB"}

SeqsUpTo(S, n) == UNION {[1..k -> S] : k \in 0..n}

InitPhonetic ==
    /\ InitRequests
    /\ dict \in Dictionaries
    /\ fin \in SeqsUpTo(Alphabet, MaxTextLen)
    /\ fout = NoFunction

DerivePhonetic ==
    /\ ~fout.done
    /\ LET words == split(fin)
           list == phonetic_list(dict, words)
       IN  fout' = [done |-> TRUE, words |-> words, list |-> list,
                    phonetic |-> join(<<" ">>, list)]
    /\ UNCHANGED <<reqVars, dict, fin>>

NextPhonetic == DerivePhonetic

SpecPhonetic == InitPhonetic /\ [][NextPhonetic]_vars

RECURSIVE Concat(_)
Concat(list) == IF list = <<>> THEN <<>> ELSE list[1] \o Concat(Tail(list))

RECURSIVE WithoutWhitespace(_)
WithoutWhitespace(t) ==
    IF t = <<>> THEN <<>>
    ELSE (IF t[1] \in {" ", "TAB"} THEN <<>> ELSE <<t[1]>>) \o WithoutWhitespace(Tail(t))

\* where the i-th element starts in the joined string, less one
RECURSIVE Offset(_, _)
Offset(list, i) == IF i = 1 THEN 0 ELSE Offset(list, i - 1) + Len(list[i - 1]) + 1

WordStarts(t) ==
    {i \in 1..Len(t) : t[i] \notin {" ", "TAB"} /\ (i = 1 \/ t[i - 1] \in {" ", "TAB"})}

\* C9: the phonetic string is the transcript split on whitespace, each word
\* looked up once and in order, the results joined by single spaces: a word
\* the dictionary holds gives the first transcription the dictionary has for
\* that exact word, any other word the "not found" sentinel, and an empty or
\* all-whitespace transcript the empty string.
C9_WordByWord ==
    fout.done =>
        LET words == fout.words
            list == fout.list
            n == Len(words)
        IN  /\ n = Cardinality(WordStarts(fin))
            /\ \A i \in 1..n :
                   /\ words[i] # <<>>
                   /\ \A k \in 1..Len(words[i]) : words[i][k] \notin {" ", "TAB"}
            /\ Concat(words) = WithoutWhitespace(fin)
            /\ Len(list) = n
            /\ \A i \in 1..n :
                   list[i] = IF words[i] \in DOMAIN dict
                             THEN dict[words[i]][1]
                             ELSE <<"No", " ", "transcription", " ", "found">>
            /\ Len(fout.phonetic) = IF n = 0 THEN 0 ELSE Offset(list, n) + Len(list[n])
            /\ \A i \in 1..n :
                   /\ SubSeq(fout.phonetic, Offset(list, i) + 1,
                             Offset(list, i) + Len(list[i])) = list[i]
                   /\ i < n => fout.phonetic[Offset(list, i) + Len(list[i]) + 1] = " "
            /\ WithoutWhitespace(fin) = <<>> => fout.phonetic = <<>>
            /\ fout.phonetic = derive_phonetic(dict, fin)

C9_Witness ==
    /\ fout.done
    /\ fin = <<"A", "TAB", "a">>
    /\ dict = ExactDict
    /\ fout.phonetic = <<"No", " ", "transcription", " ", "found", " ", "AH0">>

(***************************************************************************)
(* The series of prosody_analysis (lines 46-59) on every short recording   *)
(***************************************************************************)
\* a frame's frequency: 0 where no voicing was detected
Frequencies == {0, 110, 220}

\* the library's series: one pitch value and time per frame, and intensity
\* values and times computed apart from them
InitProsody ==
    /\ InitRequests
    /\ dict = ExactDict
    /\ \E pv \in SeqsUpTo(Frequencies, MaxFrames), nv \in 0..MaxFrames, nt \in 0..MaxFrames :
           fin = [pitch_values |-> pv,
                  pitch_times |-> [i \in 1..Len(pv) |-> i],
                  intensity_values |-> [i \in 1..nv |-> 50 + i],
                  intensity_times |-> [i \in 1..nt |-> i]]
    /\ fout = NoFunction

ComputeSeries ==
    /\ ~fout.done
    /\ fout' = prosody_series(fin.pitch_values, fin.pitch_times,
                              fin.intensity_values, fin.intensity_times)
    /\ UNCHANGED <<reqVars, dict, fin>>

NextProsody == ComputeSeries

SpecProsody == InitProsody /\ [][NextProsody]_vars

C10_IsMin(n, S) == n \in S /\ \A m \in S : n <= m

C10_PrefixOf(out, series, n) ==
    /\ Len(out) = n
    /\ n <= Len(series)
    /\ \A i \in 1..n : out[i] = series[i]

\* C10: once the frames with frequency <= 0 are removed from the pitch times
\* and values, the four series handed to the plot all have the length of the
\* shortest of the four, and each is its untruncated series cut at the end.
C10_EqualLengthPrefixes ==
    fout.done =>
        LET voiced == {i \in 1..Len(fin.pitch_values) : ~(fin.pitch_values[i] <= 0)}
            n == Len(fout.pitch_times)
        IN  /\ Len(fout.voiced_values) = Cardinality(voiced)
            /\ Len(fout.voiced_times) = Cardinality(voiced)
            /\ \A k \in 1..Len(fout.voiced_times) :
                   /\ fout.voiced_times[k] \in voiced
                   /\ fout.voiced_values[k] = fin.pitch_values[fout.voiced_times[k]]
                   /\ k > 1 => fout.voiced_times[k - 1] < fout.voiced_times[k]
            /\ C10_IsMin(n, {Len(fout.voiced_times), Len(fout.voiced_values),
                             Len(fin.intensity_times), Len(fin.intensity_values)})
            /\ C10_PrefixOf(fout.pitch_times, fout.voiced_times, n)
            /\ C10_PrefixOf(fout.pitch_values, fout.voiced_values, n)
            /\ C10_PrefixOf(fout.intensity_times, fin.intensity_times, n)
            /\ C10_PrefixOf(fout.intensity_values, fin.intensity_values, n)

C10_Witness ==
    /\ fout.done
    /\ fin.pitch_values = <<110, 0, 220>>
    /\ Len(fin.intensity_values) = 1
    /\ Len(fin.intensity_times) = 3
    /\ fout.pitch_values = <<110>>
    /\ fout.intensity_times = <<1>>

(***************************************************************************)
(* Concurrent requests and pyplot's current figure                         *)
(***************************************************************************)
\* request r has written its chart
Charted(r) ==
    \/ pc[r] \in {"close", "phonemes", "open", "write", "done"}
    \/ pc[r] = "raised" /\ err[r] \in {"open", "write"}

\* C6: concurrent uploads share no mutable state but the file system: for a
\* job whose id (and so whose files) no other request has, the chart it wrote
\* shows lines of its own pitch and intensity series only, and its transcript
\* is what the service recognised in its own recording.
C6_Isolated ==
    \A r \in Requests :
        SoleId(r) =>
            /\ Charted(r) =>
                   /\ ChartOf(uid[r]) \in DOMAIN files
                   /\ \A k \in AxesKeys :
                          \A line \in files[ChartOf(uid[r])].lines[k] : line[1] = r
            /\ svc[r].kind = "text" => text[r] = inp[r].said


====
